---- MODULE Spec2Model ----
(***************************************************************************)
(* The paginated user list of react-pagination/backend/app.js: an Express  *)
(* GET /users handler over a Sequelize model stored in an in-memory SQLite *)
(* database that is synced and seeded while the server already listens.    *)
(*                                                                         *)
(* Strings are sequences of one-character strings, so that parseInt,       *)
(* toUpperCase, template literals and SQL LIKE are computed on characters. *)
(* A query parameter is a record [set, val]: set is FALSE when the         *)
(* parameter is missing from the query string (req.query.x === undefined). *)
(*                                                                         *)
(* With it: the table view of react-pagination/frontend (DataTable), the   *)
(* traffic light of traffic-light-react (TrafficLight) and the pages of    *)
(* the store of shadcn-ui-ecom (App, Shop, ProductDetail), each with its   *)
(* own specification over its own variables.                               *)
(***************************************************************************)
EXTENDS Integers, Sequences, FiniteSets, Bags, TLC

\* ------------------------------------------------------------ bounds

\* The seeding loop is followed for its first MaxSeeded iterations.
MaxSeeded == 10

\* ------------------------------------------------------- characters

LowerLetters ==
    <<"a","b","c","d","e","f","g","h","i","j","k","l","m",
      "n","o","p","q","r","s","t","u","v","w","x","y","z">>

UpperLetters ==
    <<"A","B","C","D","E","F","G","H","I","J","K","L","M",
      "N","O","P","Q","R","S","T","U","V","W","X","Y","Z">>

DigitChars == <<"0","1","2","3","4","5","6","7","8","9">>

IsLower(c) == \E k \in 1..26 : LowerLetters[k] = c

IsUpper(c) == \E k \in 1..26 : UpperLetters[k] = c

LetterIndex(c) ==
    CHOOSE k \in 1..26 : LowerLetters[k] = c \/ UpperLetters[k] = c

Digits == { DigitChars[k] : k \in 1..10 }

IsDigit(c) == c \in Digits

\* The characters of the model's strings.
Chars ==
    { LowerLetters[k] : k \in 1..26 } \cup { UpperLetters[k] : k \in 1..26 }
    \cup Digits \cup { " ", "%", "+", "-", ".", "@", "_" }

DigitTable == [ c \in Digits |-> (CHOOSE k \in 1..10 : DigitChars[k] = c) - 1 ]

DigitVal(c) == DigitTable[c]

\* String.prototype.toUpperCase on one character: an ASCII lower-case letter
\* becomes its upper-case letter, every other ASCII character is kept.
UpperTable ==
    [ c \in Chars |-> IF IsLower(c) THEN UpperLetters[LetterIndex(c)] ELSE c ]

ToUpperChar(c) == UpperTable[c]

\* The ASCII code of a character, which is its order under memcmp.
CodeTable ==
    [ c \in Chars |->
        CASE IsDigit(c) -> 48 + DigitVal(c)
          [] IsUpper(c) -> 64 + LetterIndex(c)
          [] IsLower(c) -> 96 + LetterIndex(c)
          [] c = " " -> 32
          [] c = "%" -> 37
          [] c = "+" -> 43
          [] c = "-" -> 45
          [] c = "." -> 46
          [] c = "@" -> 64
          [] OTHER -> 95 ]

CharCode(c) == CodeTable[c]

\* String.prototype.toUpperCase.
ToUpperCase(s) == [k \in 1..Len(s) |-> ToUpperChar(s[k])]

\* Number.prototype.toString for a non-negative integer, as the template
\* literals `User ${i}` and `user${i}@example.com` render i.
RECURSIVE NumToString(_)
NumToString(n) ==
    IF n < 10 THEN <<DigitChars[n + 1]>>
    ELSE NumToString(n \div 10) \o <<DigitChars[(n % 10) + 1]>>

\* ---------------------------------------------------------- parseInt

NaN == [nan |-> TRUE, val |-> 0]

Num(n) == [nan |-> FALSE, val |-> n]

\* The index of the first character of s at or after k that is not white space.
RECURSIVE SkipWhiteSpace(_, _)
SkipWhiteSpace(s, k) ==
    IF k <= Len(s) /\ s[k] = " " THEN SkipWhiteSpace(s, k + 1) ELSE k

\* The value of the longest run of decimal digits of s that starts at k, with
\* acc the value of the digits before k.
RECURSIVE DigitRun(_, _, _)
DigitRun(s, k, acc) ==
    IF k <= Len(s) /\ IsDigit(s[k])
    THEN DigitRun(s, k + 1, 10 * acc + DigitVal(s[k]))
    ELSE acc

\* parseInt(s, 10): leading white space is skipped, one sign is read, then the
\* longest prefix of digits; what follows the digits is ignored; no digit at
\* all is NaN.
ParseInt(s) ==
    LET b == SkipWhiteSpace(s, 1)
        signed == b <= Len(s) /\ (s[b] = "-" \/ s[b] = "+")
        neg == b <= Len(s) /\ s[b] = "-"
        d == IF signed THEN b + 1 ELSE b
    IN  IF d <= Len(s) /\ IsDigit(s[d])
        THEN Num(IF neg THEN 0 - DigitRun(s, d, 0) ELSE DigitRun(s, d, 0))
        ELSE NaN

IsNaN(x) == x.nan

\* ------------------------------------------------------ record store

\* for (let i = 1; i <= 100; i++)
SEED_COUNT == 100

\* The columns of the Users table: the two attributes of the model, the
\* primary key Sequelize adds and the two timestamps of timestamps: true.
Columns ==
    { <<"i","d">>,
      <<"n","a","m","e">>,
      <<"e","m","a","i","l">>,
      <<"c","r","e","a","t","e","d","A","t">>,
      <<"u","p","d","a","t","e","d","A","t">> }

\* The row User.create inserts in iteration i of the seeding loop; its key
\* is the next rowid. The values of the two timestamps are not modelled.
SeedUser(i) ==
    [ id |-> i,
      name |-> <<"U","s","e","r"," ">> \o NumToString(i),
      email |-> <<"u","s","e","r">> \o NumToString(i)
                \o <<"@","e","x","a","m","p","l","e",".","c","o","m">> ]

\* --------------------------------------------------------- SQL LIKE

\* SQLite's LIKE on pattern p from i and text t from j: % matches any run of
\* characters, _ any one character, any other character matches itself
\* without regard to the case of ASCII letters. Sequelize passes the pattern
\* as a string literal and adds no ESCAPE clause.
RECURSIVE LikeAt(_, _, _, _)
LikeAt(p, t, i, j) ==
    IF i > Len(p) THEN j > Len(t)
    ELSE IF p[i] = "%"
         THEN LikeAt(p, t, i + 1, j) \/ (j <= Len(t) /\ LikeAt(p, t, i, j + 1))
         ELSE /\ j <= Len(t)
              /\ (p[i] = "_" \/ ToUpperChar(p[i]) = ToUpperChar(t[j]))
              /\ LikeAt(p, t, i + 1, j + 1)

Like(t, p) == LikeAt(p, t, 1, 1)

\* The pattern without its closing %: the text must end with the search.
LikePatternSuffix(search) == <<"%">> \o search

\* `%${search}%`
LikePattern(search) == <<"%">> \o search \o <<"%">>

\* where: { [Op.or]: [{ name: { [Op.like]: ... } }, { email: { [Op.like]: ... } }] }
Where(u, search) ==
    Like(u.name, LikePattern(search)) \/ Like(u.email, LikePattern(search))

\* ------------------------------------------------------ SQL ORDER BY

\* memcmp of two strings from position k: -1, 0 or 1 (the BINARY collation).
RECURSIVE CompareFrom(_, _, _)
CompareFrom(a, b, k) ==
    IF k > Len(a) THEN (IF k > Len(b) THEN 0 ELSE 0 - 1)
    ELSE IF k > Len(b) THEN 1
    ELSE IF CharCode(a[k]) < CharCode(b[k]) THEN 0 - 1
    ELSE IF CharCode(a[k]) > CharCode(b[k]) THEN 1
    ELSE CompareFrom(a, b, k + 1)

\* The column an ORDER BY identifier names: SQLite resolves identifiers
\* without regard to case. No such column is a failed query.
IsColumn(orderBy) == \E c \in Columns : ToUpperCase(c) = ToUpperCase(orderBy)

ColumnOf(orderBy) ==
    CHOOSE c \in Columns : ToUpperCase(c) = ToUpperCase(orderBy)

\* Rows u and v compared on column col: -1, 0 or 1. No request of the model
\* orders by a timestamp.
CompareOn(u, v, col) ==
    CASE col = <<"n","a","m","e">> -> CompareFrom(u.name, v.name, 1)
      [] col = <<"e","m","a","i","l">> -> CompareFrom(u.email, v.email, 1)
      [] col = <<"i","d">> ->
            IF u.id < v.id THEN 0 - 1 ELSE IF u.id > v.id THEN 1 ELSE 0
      [] OTHER -> 0

\* u comes before v in ORDER BY col dir LIMIT ...: by the column in the
\* direction asked for, rows equal on the column in the order of the scan
\* (SQLite's sorter for a query with a LIMIT keys each row by the ORDER BY
\* terms and then by a sequence number).
Before(u, v, col, dir) ==
    LET c == CompareOn(u, v, col)
    IN  IF c = 0 THEN u.id < v.id
        ELSE IF dir = <<"D","E","S","C">> THEN c > 0 ELSE c < 0

\* rows in the order of ORDER BY col dir. Before is a total order on rows of
\* different keys, and the rows of a table have different keys, so the
\* sorted sequence is the only one.
OrderBy(rows, col, dir) ==
    SortSeq(rows, LAMBDA u, v : Before(u, v, col, dir))

\* A LIMIT that is not applied: every row from the offset on.
OffsetNoLimit(rows, off, lim) ==
    LET o == IF off < 0 THEN 0 ELSE off
    IN  IF o >= Len(rows) THEN <<>> ELSE SubSeq(rows, o + 1, Len(rows))

\* LIMIT lim OFFSET off of a row sequence. SQLite reads a negative OFFSET as
\* 0 and a negative LIMIT as no limit.
OffsetLimit(rows, off, lim) ==
    LET o == IF off < 0 THEN 0 ELSE off
        e == IF lim < 0 \/ o + lim > Len(rows) THEN Len(rows) ELSE o + lim
    IN  IF o >= Len(rows) THEN <<>> ELSE SubSeq(rows, o + 1, e)

\* The count taken over the whole table instead of the selected rows.
FindAndCountAllCountsTable(table, search, orderBy, dir, off, lim) ==
    LET selected == SelectSeq(table, LAMBDA u : Where(u, search))
        rows == OffsetLimit(OrderBy(selected, ColumnOf(orderBy), dir), off, lim)
    IN  [ count |-> Len(table),
          rows |-> IF Len(table) = 0 THEN <<>> ELSE rows ]

\* User.findAndCountAll({ where, order, offset, limit }) on table: the number
\* of rows the where clause selects and the page of them; rows is empty when
\* the count is 0.
FindAndCountAll(table, search, orderBy, dir, off, lim) ==
    LET selected == SelectSeq(table, LAMBDA u : Where(u, search))
        rows == OffsetLimit(OrderBy(selected, ColumnOf(orderBy), dir), off, lim)
    IN  [ count |-> Len(selected),
          rows |-> IF Len(selected) = 0 THEN <<>> ELSE rows ]

\* ----------------------------------------------------- GET /users

Absent == [set |-> FALSE, val |-> <<>>]

Given(s) == [set |-> TRUE, val |-> s]

\* A destructuring default: it applies when the property is undefined.
OrDefault(param, default) == IF param.set THEN param.val ELSE default

\* The defaults of page, limit, search, orderBy and order; parseInt reads the
\* numbers 1 and 10 through their string forms.
DefaultPage == <<"1">>

\* A default limit of 5.
DefaultLimitFive == <<"5">>

DefaultLimit == <<"1","0">>

DefaultSearch == <<>>

DefaultOrderBy == <<"n","a","m","e">>

DefaultOrder == <<"A","S","C">>

\* The page tested against 0 instead of 1.
InvalidPageOrLimitBelowZero(pageNumber, limitNumber) ==
    \/ IsNaN(pageNumber)
    \/ IsNaN(limitNumber)
    \/ pageNumber.val < 0
    \/ limitNumber.val < 1

\* isNaN(pageNumber) || isNaN(limitNumber) || pageNumber < 1 || limitNumber < 1
InvalidPageOrLimit(pageNumber, limitNumber) ==
    \/ IsNaN(pageNumber)
    \/ IsNaN(limitNumber)
    \/ pageNumber.val < 1
    \/ limitNumber.val < 1

\* The order left unchecked.
InvalidOrderUnchecked(order) == FALSE

\* !["ASC", "DESC"].includes(order.toUpperCase())
InvalidOrder(order) ==
    ToUpperCase(order) \notin { <<"A","S","C">>, <<"D","E","S","C">> }

\* The offset of the page after the one asked for.
OffsetOfNextPage(pageNumber, limitNumber) == pageNumber * limitNumber

\* The offset counted in pages instead of rows.
OffsetInPages(pageNumber, limitNumber) == pageNumber - 1

\* offset: (pageNumber - 1) * limitNumber
Offset(pageNumber, limitNumber) == (pageNumber - 1) * limitNumber

\* Math.floor in the place of Math.ceil.
TotalPagesFloor(count, limitNumber) == count \div limitNumber

\* Math.ceil(count / limitNumber), for count >= 0 and limitNumber >= 1.
TotalPages(count, limitNumber) ==
    IF count % limitNumber = 0
    THEN count \div limitNumber
    ELSE (count \div limitNumber) + 1

ErrPageLimit == "Invalid page or limit parameter."

ErrOrder == "Invalid order parameter. Use ASC or DESC."

ErrFetch == "An error occurred while fetching users."

\* The query throws when the Users table does not exist yet or when the
\* ORDER BY identifier names none of its columns.
QueryThrows(tableExists, orderBy) == ~tableExists \/ ~IsColumn(orderBy)

\* A handler that runs a failed query a second time before it gives up.
GetUsersRetrying(q, table, tableExists) ==
    LET page == OrDefault(q.page, DefaultPage)
        limit == OrDefault(q.limit, DefaultLimit)
        search == OrDefault(q.search, DefaultSearch)
        orderBy == OrDefault(q.orderBy, DefaultOrderBy)
        order == OrDefault(q.order, DefaultOrder)
        pageNumber == ParseInt(page)
        limitNumber == ParseInt(limit)
        found == FindAndCountAll(table, search, orderBy, ToUpperCase(order),
                                 Offset(pageNumber.val, limitNumber.val),
                                 limitNumber.val)
    IN  IF InvalidPageOrLimit(pageNumber, limitNumber)
        THEN [ status |-> 400, body |-> [error |-> ErrPageLimit], calls |-> 0 ]
        ELSE IF InvalidOrder(order)
        THEN [ status |-> 400, body |-> [error |-> ErrOrder], calls |-> 0 ]
        ELSE IF QueryThrows(tableExists, orderBy)
        THEN [ status |-> 500, body |-> [error |-> ErrFetch], calls |-> 2 ]
        ELSE [ status |-> 200,
               body |-> [ totalUsers |-> found.count,
                          totalPages |-> TotalPages(found.count, limitNumber.val),
                          currentPage |-> pageNumber.val,
                          users |-> found.rows ],
               calls |-> 1 ]

\* The handler of GET /users on query string q: the response it sends and
\* the number of findAndCountAll calls it made.
GetUsers(q, table, tableExists) ==
    LET page == OrDefault(q.page, DefaultPage)
        limit == OrDefault(q.limit, DefaultLimit)
        search == OrDefault(q.search, DefaultSearch)
        orderBy == OrDefault(q.orderBy, DefaultOrderBy)
        order == OrDefault(q.order, DefaultOrder)
        pageNumber == ParseInt(page)
        limitNumber == ParseInt(limit)
        found == FindAndCountAll(table, search, orderBy, ToUpperCase(order),
                                 Offset(pageNumber.val, limitNumber.val),
                                 limitNumber.val)
    IN  IF InvalidPageOrLimit(pageNumber, limitNumber)
        THEN [ status |-> 400, body |-> [error |-> ErrPageLimit], calls |-> 0 ]
        ELSE IF InvalidOrder(order)
        THEN [ status |-> 400, body |-> [error |-> ErrOrder], calls |-> 0 ]
        ELSE IF QueryThrows(tableExists, orderBy)
        THEN [ status |-> 500, body |-> [error |-> ErrFetch], calls |-> 1 ]
        ELSE [ status |-> 200,
               body |-> [ totalUsers |-> found.count,
                          totalPages |-> TotalPages(found.count, limitNumber.val),
                          currentPage |-> pageNumber.val,
                          users |-> found.rows ],
               calls |-> 1 ]

\* ------------------------------------------------------------ inputs

\* What a client may send as page: nothing, an integer below, at and above
\* 1, text with no digit, digits followed by text.
PageInputs ==
    { Absent, Given(<<"0">>), Given(<<"2">>), Given(<<"3">>),
      Given(<<"-","1">>), Given(<<"a","b","c">>), Given(<<"2","a","b","c">>) }

LimitInputs ==
    { Absent, Given(<<"0">>), Given(<<"1">>), Given(<<"2">>),
      Given(<<"x">>), Given(<<"3","x">>) }

\* Search strings: none, one that is in names only up to letter case, one
\* that is in e-mail addresses only, one that is in no row, two with a LIKE
\* wildcard.
SearchInputs ==
    { Absent, Given(<<"u","S","E","R"," ","1">>), Given(<<"r","1">>),
      Given(<<"z","z">>), Given(<<"r","_","0">>), Given(<<"%">>) }

OrderByInputs ==
    { Absent, Given(<<"I","D">>), Given(<<"e","m","a","i","l">>),
      Given(<<"a","g","e">>) }

OrderInputs ==
    { Absent, Given(<<"D","E","S","C">>), Given(<<"d","e","s","c">>),
      Given(<<"S","I","D","E","W","A","Y","S">>) }

Queries ==
    [ page : PageInputs, limit : LimitInputs, search : SearchInputs,
      orderBy : OrderByInputs, order : OrderInputs ]

\* ------------------------------------------------------------- state

VARIABLES
    dbPhase,    \* "start": before sequelize.sync; "seeding"; "seeded"
    seedI,      \* the loop variable i of the seeding loop
    store,      \* the rows of the Users table, in rowid order
    req,        \* the query string of the last request handled
    res,        \* the response to it, until it is delivered: [status, body]
    calls,      \* the findAndCountAll calls made for it
    earlier,    \* a request a client remembers with the response it got
    \* the state of the table view (DataTable)
    search,         \* the search text
    pageIndex,      \* the page shown, counted from 0
    limit,          \* the page size, as the request URL renders it
    loading,        \* a fetchData call has started and none has ended since
    data,           \* the rows shown
    pageCount,      \* the pages the last stored response reported
    tablePageIndex, \* the page index the table library keeps
    inflight,       \* the bag of the requests sent and not yet answered
    lastFetch,      \* how the fetchData call that ended last ended
    \* the state of the traffic light (TrafficLight)
    active,     \* the light that is on
    lightPc,    \* "effect": rendered, the effect has yet to run; "idle"
    timers,     \* the bag of the pending timers: [to, due]
    shownFor,   \* the milliseconds since active changed last
    \* the state of the store (App, Shop, ProductDetail)
    route,      \* the page shown: [page, id]
    category,   \* the category picked on the shop page
    size,       \* the size picked on the product page
    tab,        \* the tab open on the product page
    lastNav,    \* what made the navigation to the page shown
    menuOpen    \* the sheet of the navbar's menu button is open

serverVars == <<dbPhase, seedI, store, req, res, calls, earlier>>

tableVars ==
    <<search, pageIndex, limit, loading, data, pageCount, tablePageIndex,
      inflight, lastFetch>>

lightVars == <<active, lightPc, timers, shownFor>>

shopVars == <<route, category, size, tab, lastNav, menuOpen>>

vars ==
    <<dbPhase, seedI, store, req, res, calls, earlier,
      search, pageIndex, limit, loading, data, pageCount, tablePageIndex,
      inflight, lastFetch,
      active, lightPc, timers, shownFor,
      route, category, size, tab, lastNav, menuOpen>>

NoQuery ==
    [ page |-> Absent, limit |-> Absent, search |-> Absent,
      orderBy |-> Absent, order |-> Absent ]

NoResponse == [status |-> 0, body |-> [error |-> ""]]

\* The client remembers no request.
NoneEarlier == [req |-> NoQuery, res |-> NoResponse]

\* The table view as its useState calls create it, no request sent.
ViewCreated ==
    /\ search = <<>>
    /\ pageIndex = 0
    /\ limit = <<"1","0">>
    /\ loading = FALSE
    /\ data = <<>>
    /\ pageCount = 0
    /\ tablePageIndex = 0
    /\ inflight = EmptyBag
    /\ lastFetch = "none"

\* The traffic light after its first render: useState(lights.red), the
\* effect of the render yet to run.
LightCreated ==
    /\ active = "red"
    /\ lightPc = "effect"
    /\ timers = EmptyBag
    /\ shownFor = 0

\* The store opened at "/": the shop page with useState("all"); the state
\* of a page that is not shown is what its useState calls start it with.
ShopCreated ==
    /\ route = [page |-> "shop", id |-> 0]
    /\ category = "all"
    /\ size = ""
    /\ tab = "details"
    /\ lastNav = "none"
    /\ menuOpen = FALSE

Init ==
    /\ dbPhase = "start"
    /\ seedI = 1
    /\ store = <<>>
    /\ req = NoQuery
    /\ res = NoResponse
    /\ calls = 0
    /\ earlier = NoneEarlier
    /\ ViewCreated
    /\ LightCreated
    /\ ShopCreated

Idle == res = NoResponse

\* await sequelize.sync({ force: true }): the table is dropped and created.
Sync ==
    /\ Idle
    /\ dbPhase = "start"
    /\ dbPhase' = "seeding"
    /\ store' = <<>>
    /\ UNCHANGED <<seedI, req, res, calls, earlier>>
    /\ UNCHANGED <<tableVars, lightVars, shopVars>>

\* One iteration of the seeding loop: await User.create({...}); i++. The
\* loop ends after iteration SEED_COUNT.
SeedCreate ==
    /\ Idle
    /\ dbPhase = "seeding"
    /\ seedI <= SEED_COUNT
    /\ seedI <= MaxSeeded
    /\ store' = Append(store, SeedUser(seedI))
    /\ seedI' = seedI + 1
    /\ dbPhase' = IF seedI = SEED_COUNT THEN "seeded" ELSE "seeding"
    /\ UNCHANGED <<req, res, calls, earlier>>
    /\ UNCHANGED <<tableVars, lightVars, shopVars>>

\* A handler that recreates the table (sync with force) on every request.
RequestResyncing(q) ==
    /\ \E r \in { GetUsers(q, store, dbPhase # "start") } :
          /\ req' = q
          /\ res' = [status |-> r.status, body |-> r.body]
          /\ calls' = r.calls
    /\ store' = <<>>
    /\ UNCHANGED <<dbPhase, seedI, earlier>>
    /\ UNCHANGED <<tableVars, lightVars, shopVars>>

\* app.get("/users", ...) handles one request: the query and res.json run
\* with no seeding step between them, and the model follows the requests one
\* at a time, each response being delivered before the next step.
Request(q) ==
    /\ \E r \in { GetUsers(q, store, dbPhase # "start") } :
          /\ req' = q
          /\ res' = [status |-> r.status, body |-> r.body]
          /\ calls' = r.calls
    /\ UNCHANGED <<dbPhase, seedI, store, earlier>>
    /\ UNCHANGED <<tableVars, lightVars, shopVars>>

\* The client receives the response.
Deliver ==
    /\ ~Idle
    /\ req' = NoQuery
    /\ res' = NoResponse
    /\ calls' = 0
    /\ UNCHANGED <<dbPhase, seedI, store, earlier>>
    /\ UNCHANGED <<tableVars, lightVars, shopVars>>

\* Some request arrives and is handled.
Serve == Idle /\ \E q \in Queries : Request(q)

Next ==
    \/ Sync
    \/ SeedCreate
    \/ Serve
    \/ Deliver

Spec == Init /\ [][Next]_vars

\* ------------------------------------------------- the seeded server

\* The table when the seeding loop has ended: rows 1..SEED_COUNT.
SeededStore == [ i \in 1..SEED_COUNT |-> SeedUser(i) ]

\* What a client sends to the seeded server: each parameter left out or
\* given with the value of its default, and a second page and a search that
\* some names contain.
SeededQueries ==
    [ page : { Absent, Given(<<"1">>), Given(<<"2">>) },
      limit : { Absent, Given(<<"1","0">>) },
      search : { Absent, Given(<<>>), Given(<<"U","s","e","r"," ","1">>) },
      orderBy : { Absent, Given(<<"n","a","m","e">>) },
      order : { Absent, Given(<<"A","S","C">>) } ]

\* The state when the seeding loop has ended and no request is being handled.
InitSeeded ==
    /\ dbPhase = "seeded"
    /\ seedI = SEED_COUNT + 1
    /\ store = SeededStore
    /\ req = NoQuery
    /\ res = NoResponse
    /\ calls = 0
    /\ earlier = NoneEarlier
    /\ ViewCreated
    /\ LightCreated
    /\ ShopCreated

\* Some request arrives at the seeded server and is handled.
ServeSeeded == Idle /\ \E q \in SeededQueries : Request(q)

\* The client receives the response and keeps it, with its request, to
\* compare with what the same request is answered later.
Remember ==
    /\ ~Idle
    /\ earlier' = [req |-> req, res |-> res]
    /\ req' = NoQuery
    /\ res' = NoResponse
    /\ calls' = 0
    /\ UNCHANGED <<dbPhase, seedI, store>>
    /\ UNCHANGED <<tableVars, lightVars, shopVars>>

NextSeeded ==
    \/ ServeSeeded
    \/ Deliver
    \/ Remember

SpecSeeded == InitSeeded /\ [][NextSeeded]_vars

\* ---------------------------------------------------- the table view

\* The view is followed while at most MaxInFlight of its requests are
\* unanswered and its page indexes are within MaxPageIndex of 0, against the
\* server as it stands after ViewSeeded iterations of the seeding loop.
MaxInFlight == 2

MaxPageIndex == 1

ViewSeeded == 6

\* `${pageIndex + 1}`: a number as a template literal renders it.
ToStr(n) == IF n < 0 THEN <<"-">> \o NumToString(0 - n) ELSE NumToString(n)

\* The query string of
\* `http://localhost:3000/users?page=${pageIndex + 1}&limit=${limit}&search=${search}`
UrlQuery(pi, l, s) ==
    [ page |-> Given(ToStr(pi + 1)), limit |-> Given(l), search |-> Given(s),
      orderBy |-> Absent, order |-> Absent ]

\* The texts a user leaves in the search box.
SearchTexts == { <<>>, <<"U","s","e","r"," ","1">> }

\* [5, 10, 15, 20].map((num) => <option ...>)
LimitOptions == { <<"5">>, <<"1","0">>, <<"1","5">>, <<"2","0">> }

\* The options a user picks.
LimitPicks == { <<"5">>, <<"1","0">> }

\* What a user leaves in the page-number box: nothing, or a number.
PageBoxValues ==
    { [set |-> FALSE, val |-> 0] }
    \cup { [set |-> TRUE, val |-> n] : n \in 0..(MaxPageIndex + 1) }

\* An effect with no dependency: it runs after the first render only.
UseEffectOnMountOnly == UNCHANGED <<loading, inflight>>

\* An effect whose new request aborts the unanswered ones.
UseEffectCancelling ==
    IF <<pageIndex', search', limit'>> # <<pageIndex, search, limit>>
    THEN /\ loading' = TRUE
         /\ inflight' = SetToBag({ UrlQuery(pageIndex', limit', search') })
    ELSE UNCHANGED <<loading, inflight>>

\* useEffect(() => { fetchData({ pageIndex, search, limit }) },
\*           [pageIndex, search, limit]) after a render, up to the await of
\* fetchData: when one of the three changed, loading is set and the request
\* is sent.
UseEffect ==
    IF <<pageIndex', search', limit'>> # <<pageIndex, search, limit>>
    THEN /\ loading' = TRUE
         /\ inflight' = inflight (+) SetToBag({ UrlQuery(pageIndex', limit', search') })
    ELSE UNCHANGED <<loading, inflight>>

\* gotoPage of the table library on its page index tpi with pc pages: a move
\* forward is made when the page exists, a move back when the index is not
\* negative, and nothing happens otherwise.
GotoPage(tpi, pc, page) ==
    IF page > tpi THEN (IF page < pc THEN page ELSE tpi)
    ELSE IF page < tpi THEN (IF page > 0 - 1 THEN page ELSE tpi)
    ELSE tpi

\* canPreviousPage and canNextPage of the table library.
CanPreviousPage == tablePageIndex > 0

CanNextPage == tablePageIndex < pageCount - 1

\* The user may act: the bound on unanswered requests leaves room for the
\* request the action may send.
UserMayAct == BagCardinality(inflight) < MaxInFlight

\* The server while it seeds, which listens from its start on, and the view
\* with its first request (the effect of its first render) on its way.
InitTable ==
    /\ dbPhase = "seeding"
    /\ seedI = ViewSeeded + 1
    /\ store = [ i \in 1..ViewSeeded |-> SeedUser(i) ]
    /\ req = NoQuery
    /\ res = NoResponse
    /\ calls = 0
    /\ earlier = NoneEarlier
    /\ search = <<>>
    /\ pageIndex = 0
    /\ limit = <<"1","0">>
    /\ loading = TRUE
    /\ data = <<>>
    /\ pageCount = 0
    /\ tablePageIndex = 0
    /\ inflight = SetToBag({ UrlQuery(0, <<"1","0">>, <<>>) })
    /\ lastFetch = "none"
    /\ LightCreated
    /\ ShopCreated

\* A handleSearch that also sends the table library to its first page.
HandleSearchGotoFirst(text) ==
    /\ UserMayAct
    /\ text # search
    /\ search' = text
    /\ pageIndex' = 0
    /\ tablePageIndex' = GotoPage(tablePageIndex, pageCount, 0)
    /\ UNCHANGED <<limit, data, pageCount, lastFetch>>
    /\ UseEffect
    /\ UNCHANGED <<serverVars, lightVars, shopVars>>

\* handleSearch: the search box changes to text.
HandleSearch(text) ==
    /\ UserMayAct
    /\ text # search
    /\ search' = text
    /\ pageIndex' = 0
    /\ UNCHANGED <<limit, data, pageCount, tablePageIndex, lastFetch>>
    /\ UseEffect
    /\ UNCHANGED <<serverVars, lightVars, shopVars>>

\* onChange of the select: another page size is picked.
LimitChange(option) ==
    /\ UserMayAct
    /\ option # limit
    /\ limit' = option
    /\ UNCHANGED <<search, pageIndex, data, pageCount, tablePageIndex, lastFetch>>
    /\ UseEffect
    /\ UNCHANGED <<serverVars, lightVars, shopVars>>

\* A Previous button that also empties the search box.
PreviousClickClearing ==
    /\ UserMayAct
    /\ CanPreviousPage
    /\ pageIndex > 0 - MaxPageIndex
    /\ pageIndex' = pageIndex - 1
    /\ tablePageIndex' = GotoPage(tablePageIndex, pageCount, tablePageIndex - 1)
    /\ search' = <<>>
    /\ UNCHANGED <<limit, data, pageCount, lastFetch>>
    /\ UseEffect
    /\ UNCHANGED <<serverVars, lightVars, shopVars>>

\* onClick of Previous, enabled by canPreviousPage.
PreviousClick ==
    /\ UserMayAct
    /\ CanPreviousPage
    /\ pageIndex > 0 - MaxPageIndex
    /\ pageIndex' = pageIndex - 1
    /\ tablePageIndex' = GotoPage(tablePageIndex, pageCount, tablePageIndex - 1)
    /\ UNCHANGED <<search, limit, data, pageCount, lastFetch>>
    /\ UseEffect
    /\ UNCHANGED <<serverVars, lightVars, shopVars>>

\* onClick of Next, enabled by canNextPage.
NextClick ==
    /\ UserMayAct
    /\ CanNextPage
    /\ pageIndex < MaxPageIndex
    /\ tablePageIndex < MaxPageIndex
    /\ pageIndex' = pageIndex + 1
    /\ tablePageIndex' = GotoPage(tablePageIndex, pageCount, tablePageIndex + 1)
    /\ UNCHANGED <<search, limit, data, pageCount, lastFetch>>
    /\ UseEffect
    /\ UNCHANGED <<serverVars, lightVars, shopVars>>

\* onChange of the page-number box:
\* const page = e.target.value ? Number(e.target.value) - 1 : 0
PageInputChange(value) ==
    /\ UserMayAct
    /\ LET page == IF value.set THEN value.val - 1 ELSE 0
       IN  /\ page <= MaxPageIndex
           /\ tablePageIndex' = GotoPage(tablePageIndex, pageCount, page)
           /\ pageIndex' = page
    /\ UNCHANGED <<search, limit, data, pageCount, lastFetch>>
    /\ UseEffect
    /\ UNCHANGED <<serverVars, lightVars, shopVars>>

\* A fetchData whose catch block leaves loading set.
FetchEndsLoadingStuck(q, answer) ==
    /\ inflight' = inflight (-) SetToBag({ q })
    /\ IF answer.status = 200
       THEN /\ data' = answer.body.users
            /\ pageCount' = answer.body.totalPages
            /\ lastFetch' = "ok"
            /\ loading' = FALSE
       ELSE /\ lastFetch' = "error"
            /\ loading' = TRUE
            /\ UNCHANGED <<data, pageCount>>
    /\ UNCHANGED <<search, pageIndex, limit, tablePageIndex>>
    /\ UNCHANGED <<serverVars, lightVars, shopVars>>

\* A fetchData whose catch block empties the table.
FetchEndsClearingRows(q, answer) ==
    /\ inflight' = inflight (-) SetToBag({ q })
    /\ IF answer.status = 200
       THEN /\ data' = answer.body.users
            /\ pageCount' = answer.body.totalPages
            /\ lastFetch' = "ok"
       ELSE /\ lastFetch' = "error"
            /\ data' = <<>>
            /\ pageCount' = 0
    /\ loading' = FALSE
    /\ UNCHANGED <<search, pageIndex, limit, tablePageIndex>>
    /\ UNCHANGED <<serverVars, lightVars, shopVars>>

\* fetchData from its await on, for the unanswered request q: axios.get
\* resolves with a 2xx answer, whose users and totalPages are stored, and
\* rejects otherwise (status 0 stands for no answer at all), which the catch
\* block logs; then setLoading(false).
FetchEnds(q, answer) ==
    /\ inflight' = inflight (-) SetToBag({ q })
    /\ IF answer.status = 200
       THEN /\ data' = answer.body.users
            /\ pageCount' = answer.body.totalPages
            /\ lastFetch' = "ok"
       ELSE /\ lastFetch' = "error"
            /\ UNCHANGED <<data, pageCount>>
    /\ loading' = FALSE
    /\ UNCHANGED <<search, pageIndex, limit, tablePageIndex>>
    /\ UNCHANGED <<serverVars, lightVars, shopVars>>

\* The server handles one of the unanswered requests and its answer
\* arrives.
ResponseArrives ==
    \E q \in BagToSet(inflight) :
        FetchEnds(q, GetUsers(q, store, dbPhase # "start"))

\* One of the unanswered requests fails in the network.
NetworkError ==
    \E q \in BagToSet(inflight) : FetchEnds(q, NoResponse)

NextTable ==
    \/ \E text \in SearchTexts : HandleSearch(text)
    \/ \E option \in LimitPicks : LimitChange(option)
    \/ PreviousClick
    \/ NextClick
    \/ \E value \in PageBoxValues : PageInputChange(value)
    \/ ResponseArrives
    \/ NetworkError

SpecTable == InitTable /\ [][NextTable]_vars

\* ------------------------------------------- paging through a result

\* The first requests of clients that page through a result of the seeded
\* server: page 1 with a limit, a search, a column and a direction that stay
\* the same for the pages that follow.
PagingQueries ==
    [ page : { Given(<<"1">>) },
      limit : { Absent, Given(<<"3","0">>), Given(<<"4","5">>) },
      search : { Absent, Given(<<"U","s","e","r"," ","1">>), Given(<<"9">>) },
      orderBy : { Absent, Given(<<"e","m","a","i","l">>), Given(<<"I","D">>) },
      order : { Absent, Given(<<"d","e","s","c">>) } ]

\* A client asks the seeded server for the first page of a result.
FirstPage == Idle /\ \E q \in PagingQueries : Request(q)

\* The client asks for the page after the one it received, the other
\* parameters being those of its last request, until it has received as many
\* pages as totalPages says there are.
TurnPage ==
    /\ ~Idle
    /\ res.status = 200
    /\ res.body.currentPage < res.body.totalPages
    /\ Request([req EXCEPT !.page = Given(ToStr(res.body.currentPage + 1))])

NextPages ==
    \/ FirstPage
    \/ TurnPage

SpecPages == InitSeeded /\ [][NextPages]_vars

\* ------------------------------------------------- the traffic light

\* Time passes in steps of TickMs milliseconds, and a timer fires at most
\* MaxLate steps after it is due.
TickMs == 50

MaxLate == 2

\* The delays of the three setTimeout calls.
RedMs == 4000

YellowMs == 500

GreenMs == 3000

\* const lights = { red, yellow, green }
Lights == { "red", "yellow", "green" }

\* An effect that goes from red to green.
EffectTimerSkippingYellow(a) ==
    CASE a = "red" -> [to |-> "green", due |-> RedMs]
      [] a = "yellow" -> [to |-> "green", due |-> YellowMs]
      [] a = "green" -> [to |-> "red", due |-> GreenMs]

\* An effect whose timer for green sets green again.
EffectTimerGreenStays(a) ==
    CASE a = "red" -> [to |-> "yellow", due |-> RedMs]
      [] a = "yellow" -> [to |-> "green", due |-> YellowMs]
      [] a = "green" -> [to |-> "green", due |-> GreenMs]

\* The timer the effect sets when a is the active light: the light its
\* callback passes to setActive and the delay.
EffectTimer(a) ==
    CASE a = "red" -> [to |-> "yellow", due |-> RedMs]
      [] a = "yellow" -> [to |-> "green", due |-> YellowMs]
      [] a = "green" -> [to |-> "red", due |-> GreenMs]

\* useEffect(() => {...}) with no dependency list: it runs after every
\* render and sets one timer; it returns no cleanup.
RunEffect ==
    /\ lightPc = "effect"
    /\ timers' = timers (+) SetToBag({ EffectTimer(active) })
    /\ lightPc' = "idle"
    /\ UNCHANGED <<active, shownFor>>
    /\ UNCHANGED <<serverVars, tableVars, shopVars>>

\* TickMs milliseconds pass while the component waits for its timers.
Tick ==
    /\ lightPc = "idle"
    /\ timers # EmptyBag
    /\ \A t \in BagToSet(timers) : t.due > 0 - MaxLate * TickMs
    /\ timers' = BagOfAll(LAMBDA t : [t EXCEPT !.due = @ - TickMs], timers)
    /\ shownFor' = shownFor + TickMs
    /\ UNCHANGED <<active, lightPc>>
    /\ UNCHANGED <<serverVars, tableVars, shopVars>>

\* A timer that is due fires and its callback calls setActive(t.to): a
\* value other than the state renders the component again, the same value
\* does not.
TimerFires ==
    /\ \E t \in BagToSet(timers) :
          /\ t.due <= 0
          /\ timers' = timers (-) SetToBag({ t })
          /\ IF t.to # active
             THEN /\ active' = t.to
                  /\ lightPc' = "effect"
                  /\ shownFor' = 0
             ELSE UNCHANGED <<active, lightPc, shownFor>>
    /\ UNCHANGED <<serverVars, tableVars, shopVars>>

\* style={active !== lights.x ? { opacity: 0.5 } : null}: light x is shown
\* at full opacity.
Lit(x) == active = x

InitLight ==
    /\ dbPhase = "start"
    /\ seedI = 1
    /\ store = <<>>
    /\ req = NoQuery
    /\ res = NoResponse
    /\ calls = 0
    /\ earlier = NoneEarlier
    /\ ViewCreated
    /\ LightCreated
    /\ ShopCreated

NextLight ==
    \/ RunEffect
    \/ Tick
    \/ TimerFires

SpecLight == InitLight /\ [][NextLight]_vars

\* The scheduling of the light: an effect that is to run runs, time passes,
\* and a timer that is due fires.
LiveSpecLight ==
    /\ SpecLight
    /\ WF_vars(RunEffect)
    /\ WF_vars(Tick)
    /\ WF_vars(TimerFires)

\* ----------------------------------------------------------- the store

\* The categories of the select of the shop page.
Categories == { "all", "clothing", "shoes", "accessories" }

\* const products = [...] of the shop page: id and category.
Products ==
    { [id |-> 1, category |-> "shoes"],
      [id |-> 2, category |-> "clothing"],
      [id |-> 3, category |-> "accessories"],
      [id |-> 4, category |-> "clothing"] }

\* product.sizes of the product page.
Sizes == { "US 7", "US 8", "US 9", "US 10", "US 11" }

\* The routes of App: "/", "/product/:id", "/checkout" and "/thank-you".
ShopRoute == [page |-> "shop", id |-> 0]

ProductRoute(i) == [page |-> "product", id |-> i]

CheckoutRoute == [page |-> "checkout", id |-> 0]

ThanksRoute == [page |-> "thanks", id |-> 0]

\* category === "all" ? products : products.filter(...)
FilteredProducts ==
    IF category = "all" THEN Products
    ELSE { p \in Products : p.category = category }

\* The routes the links that can be followed lead to. The navbar, which
\* every page shows, has two and each page has its own; while the sheet of
\* the menu is open it covers them and its Shop link is the only one.
Links ==
    IF menuOpen THEN { ShopRoute }
    ELSE { ShopRoute, CheckoutRoute }
         \cup CASE route.page = "shop" ->
                     { ProductRoute(p.id) : p \in FilteredProducts }
                 [] route.page = "product" -> { ShopRoute }
                 [] route.page = "checkout" -> { ProductRoute(1) }
                 [] route.page = "thanks" -> { ShopRoute }

\* The router shows the page of target: the page left is unmounted and the
\* page shown is mounted with the state its useState calls start it with.
Navigate(target, how) ==
    /\ route' = target
    /\ lastNav' = how
    /\ category' = "all"
    /\ size' = ""
    /\ tab' = "details"
    /\ UNCHANGED menuOpen

\* The menu button of the navbar opens the sheet, and the sheet is closed
\* again; no link closes it.
ToggleMenu ==
    /\ menuOpen' = ~menuOpen
    /\ UNCHANGED <<route, category, size, tab, lastNav>>
    /\ UNCHANGED <<serverVars, tableVars, lightVars>>

\* onValueChange={setCategory} of the select of the shop page.
SetCategory(c) ==
    /\ ~menuOpen
    /\ route.page = "shop"
    /\ c # category
    /\ category' = c
    /\ UNCHANGED <<route, size, tab, lastNav, menuOpen>>
    /\ UNCHANGED <<serverVars, tableVars, lightVars>>

\* A link of the page shown that leads to another route is followed.
FollowLink(target) ==
    /\ target \in Links
    /\ target # route
    /\ Navigate(target, "link")
    /\ UNCHANGED <<serverVars, tableVars, lightVars>>

\* onValueChange={setSize} of the select of the product page: one of the
\* items is picked.
SelectSize(s) ==
    /\ ~menuOpen
    /\ route.page = "product"
    /\ s # size
    /\ size' = s
    /\ UNCHANGED <<route, category, tab, lastNav, menuOpen>>
    /\ UNCHANGED <<serverVars, tableVars, lightVars>>

\* The other tab of the product page is opened.
SwitchTab(t) ==
    /\ ~menuOpen
    /\ route.page = "product"
    /\ t # tab
    /\ tab' = t
    /\ UNCHANGED <<route, category, size, lastNav, menuOpen>>
    /\ UNCHANGED <<serverVars, tableVars, lightVars>>

\* An Add to Cart button that is never disabled.
AddToCartAlwaysEnabled ==
    /\ ~menuOpen
    /\ route.page = "product"
    /\ Navigate(CheckoutRoute, "addToCart")
    /\ UNCHANGED <<serverVars, tableVars, lightVars>>

\* disabled={!size} of the Add to Cart button: the empty string is the only
\* string that is falsy.
AddToCartDisabled == size = ""

\* onClick={handleAddToCart} of the Add to Cart button:
\* navigate("/checkout").
AddToCart ==
    /\ ~menuOpen
    /\ route.page = "product"
    /\ ~AddToCartDisabled
    /\ Navigate(CheckoutRoute, "addToCart")
    /\ UNCHANGED <<serverVars, tableVars, lightVars>>

\* onSubmit of the checkout form, every field of which is optional:
\* navigate("/thank-you").
SubmitOrder ==
    /\ ~menuOpen
    /\ route.page = "checkout"
    /\ Navigate(ThanksRoute, "submit")
    /\ UNCHANGED <<serverVars, tableVars, lightVars>>

InitShop ==
    /\ dbPhase = "start"
    /\ seedI = 1
    /\ store = <<>>
    /\ req = NoQuery
    /\ res = NoResponse
    /\ calls = 0
    /\ earlier = NoneEarlier
    /\ ViewCreated
    /\ LightCreated
    /\ ShopCreated

NextShop ==
    \/ ToggleMenu
    \/ \E c \in Categories : SetCategory(c)
    \/ \E target \in Links : FollowLink(target)
    \/ \E s \in Sizes : SelectSize(s)
    \/ \E t \in { "details", "care" } : SwitchTab(t)
    \/ AddToCart
    \/ SubmitOrder

SpecShop == InitShop /\ [][NextShop]_vars

\* ------------------------------------------- reading a handled request

\* A request has been handled and its response is at hand.
Handled == res # NoResponse

Succeeded == res.status = 200

\* The page and limit of the request as the handler parses them.
ReqPage == ParseInt(OrDefault(req.page, DefaultPage))

ReqLimit == ParseInt(OrDefault(req.limit, DefaultLimit))

ReqSearch == OrDefault(req.search, DefaultSearch)

ReqOrderBy == OrDefault(req.orderBy, DefaultOrderBy)

ReqOrder == OrDefault(req.order, DefaultOrder)

\* The rows of the table that the where clause of the request selects.
Matching == { k \in 1..Len(store) : Where(store[k], ReqSearch) }

\* k is the least number of pages of lim rows that hold n rows.
IsCeilOf(k, n, lim) == k >= 0 /\ k * lim >= n /\ (k = 0 \/ (k - 1) * lim < n)

\* ---------------------------------------------------------------- C1

\* C1: a successful response to a request with page >= 1 and limit >= 1 holds
\* at most limit rows in users.
C1_AtMostLimit ==
    (Handled /\ Succeeded) =>
        /\ ~IsNaN(ReqPage) /\ ReqPage.val >= 1
        /\ ~IsNaN(ReqLimit) /\ ReqLimit.val >= 1
        /\ Len(res.body.users) <= ReqLimit.val

\* The limit cut the page: more rows match than are returned.
C1_Witness ==
    /\ Handled /\ Succeeded
    /\ Len(res.body.users) = ReqLimit.val
    /\ Cardinality(Matching) > ReqLimit.val

\* ---------------------------------------------------------------- C2

\* C2: in a successful response totalUsers is the number of rows the search
\* selects and totalPages is the least integer not below totalUsers / limit,
\* which is 0 exactly when no row is selected.
C2_TotalPagesIsCeil ==
    (Handled /\ Succeeded) =>
        /\ res.body.totalUsers = Cardinality(Matching)
        /\ IsCeilOf(res.body.totalPages, res.body.totalUsers, ReqLimit.val)
        /\ (res.body.totalPages = 0 <=> Cardinality(Matching) = 0)

\* The division leaves a remainder and is rounded up.
C2_Witness ==
    /\ Handled /\ Succeeded
    /\ res.body.totalUsers % ReqLimit.val # 0
    /\ res.body.totalPages >= 2

\* ---------------------------------------------------------------- C3

\* C3 as stated, for the responses that have a last page: a successful
\* response holds exactly limit rows unless its page is the last one
\* (page = totalPages), where it holds at most limit.
C3_FullExceptLastPage ==
    (Handled /\ Succeeded /\ res.body.totalPages >= 1) =>
        IF ReqPage.val = res.body.totalPages
        THEN Len(res.body.users) <= ReqLimit.val
        ELSE Len(res.body.users) = ReqLimit.val

\* C3 amended: a successful response holds exactly limit rows on a page
\* before the last one, from 1 to limit rows on the last page and no row on a
\* page after the last one.
C3_FullBeforeLastPage ==
    (Handled /\ Succeeded) =>
        /\ ReqPage.val < res.body.totalPages =>
              Len(res.body.users) = ReqLimit.val
        /\ ReqPage.val = res.body.totalPages =>
              /\ Len(res.body.users) >= 1
              /\ Len(res.body.users) <= ReqLimit.val
        /\ ReqPage.val > res.body.totalPages => Len(res.body.users) = 0

\* A last page that is not the first and is not full.
C3_Witness ==
    /\ Handled /\ Succeeded
    /\ ReqPage.val = res.body.totalPages
    /\ ReqPage.val >= 2
    /\ Len(res.body.users) < ReqLimit.val

\* ---------------------------------------------------------------- C4

MatchingRows == { store[k] : k \in Matching }

\* Row u sorts strictly before row v on the column and in the direction of
\* the request.
KeyBefore(u, v) ==
    IF ToUpperCase(ReqOrder) = <<"D","E","S","C">>
    THEN CompareOn(u, v, ColumnOf(ReqOrderBy)) > 0
    ELSE CompareOn(u, v, ColumnOf(ReqOrderBy)) < 0

\* The places row u can take in a sorted list of the matching rows: after
\* the rows that sort before it, not after a row that sorts after it.
FirstPlace(u) == Cardinality({ v \in MatchingRows : KeyBefore(v, u) }) + 1

LastPlace(u) == Cardinality({ v \in MatchingRows : ~KeyBefore(u, v) })

\* C4: the users of a successful response are the rows at places
\* (p-1)*l+1 .. min(p*l, totalUsers) of the matching rows sorted by orderBy in
\* the direction asked for.
C4_OffsetPagination ==
    (Handled /\ Succeeded) =>
        LET users == res.body.users
            skipped == (ReqPage.val - 1) * ReqLimit.val
            total == Cardinality(Matching)
            last == IF ReqPage.val * ReqLimit.val < total
                    THEN ReqPage.val * ReqLimit.val ELSE total
        IN  /\ res.body.totalUsers = total
            /\ Len(users) = IF last > skipped THEN last - skipped ELSE 0
            /\ \A k \in 1..Len(users) :
                  /\ users[k] \in MatchingRows
                  /\ FirstPlace(users[k]) <= skipped + k
                  /\ skipped + k <= LastPlace(users[k])
            /\ \A j, k \in 1..Len(users) : j # k => users[j] # users[k]

\* A second page in descending order that skips rows and leaves rows behind.
C4_Witness ==
    /\ Handled /\ Succeeded
    /\ ReqPage.val = 2
    /\ ToUpperCase(ReqOrder) = <<"D","E","S","C">>
    /\ Len(res.body.users) >= 2
    /\ Cardinality(Matching) > 2 * ReqLimit.val
    /\ res.body.users[1].id > res.body.users[2].id

\* ---------------------------------------------------------------- C5

ValidPageAndLimit ==
    /\ ~IsNaN(ReqPage) /\ ReqPage.val >= 1
    /\ ~IsNaN(ReqLimit) /\ ReqLimit.val >= 1

\* The order of the request is ASC or DESC in some letter case.
OrderAccepted ==
    ToUpperCase(ReqOrder) \in { <<"A","S","C">>, <<"D","E","S","C">> }

\* The query of the request can run: orderBy names a column, in some letter
\* case, and the table exists.
QueryCanRun ==
    /\ \E c \in Columns : ToUpperCase(c) = ToUpperCase(ReqOrderBy)
    /\ dbPhase # "start"

\* The request passes validation and its query can run.
WellFormed == ValidPageAndLimit /\ OrderAccepted /\ QueryCanRun

\* The pages that the matching rows fill at the limit of the request.
PagesOfMatching ==
    CHOOSE k \in 0..Len(store) : IsCeilOf(k, Cardinality(Matching), ReqLimit.val)

\* C5: a well-formed request for a page after the last one is answered with
\* 200 and no users, and totalUsers and totalPages are those of all matching
\* rows.
C5_PageBeyondLast ==
    (Handled /\ WellFormed /\ ReqPage.val > PagesOfMatching) =>
        /\ res.status = 200
        /\ DOMAIN res.body = {"totalUsers", "totalPages", "currentPage", "users"}
        /\ res.body.users = <<>>
        /\ res.body.totalUsers = Cardinality(Matching)
        /\ res.body.totalPages = PagesOfMatching
        /\ res.body.currentPage = ReqPage.val

\* A page after the last page of a search that selects rows.
C5_Witness ==
    /\ Handled /\ Succeeded
    /\ ReqPage.val > res.body.totalPages
    /\ res.body.totalPages >= 1
    /\ res.body.users = <<>>

\* ---------------------------------------------------------------- C6

C7_NonPositiveRejected ==
    (Handled /\ ( (~IsNaN(ReqPage) /\ ReqPage.val <= 0)
                  \/ (~IsNaN(ReqLimit) /\ ReqLimit.val <= 0) )) =>
        /\ res.status = 400
        /\ DOMAIN res.body = {"error"}
        /\ res.body.error = ErrPageLimit
        /\ calls = 0

\* page=0 refused while the table has rows.
C7_Witness ==
    /\ Handled
    /\ req.page = Given(<<"0">>)
    /\ Len(store) >= 1
    /\ res.status = 400

\* ---------------------------------------------------------------- C8

\* C8 as stated, for the requests whose query can run: with a valid page and
\* limit, an order parameter that is neither the string ASC nor the string
\* DESC is answered with 400 and an error message.
C8_OrderNotAscDescRejected ==
    (Handled /\ ValidPageAndLimit /\ QueryCanRun /\ req.order.set
       /\ req.order.val \notin { <<"A","S","C">>, <<"D","E","S","C">> }) =>
        /\ res.status = 400
        /\ DOMAIN res.body = {"error"}

\* C8 amended: with a valid page and limit, an order parameter that is
\* neither ASC nor DESC in any letter case is answered with 400 and the
\* message about the order, without a query.
C8_OrderRejectedIgnoringCase ==
    (Handled /\ ValidPageAndLimit /\ req.order.set
       /\ ToUpperCase(req.order.val) \notin { <<"A","S","C">>, <<"D","E","S","C">> }) =>
        /\ res.status = 400
        /\ DOMAIN res.body = {"error"}
        /\ res.body.error = ErrOrder
        /\ calls = 0

\* order=SIDEWAYS refused for a page and a limit that are valid, while the
\* table has rows.
C8_Witness ==
    /\ Handled
    /\ ValidPageAndLimit
    /\ req.order = Given(<<"S","I","D","E","W","A","Y","S">>)
    /\ Len(store) >= 1
    /\ res.status = 400

\* ---------------------------------------------------------------- C9

\* s is an integer in decimal notation: an optional sign and one or more
\* digits, nothing else.
WellFormedInteger(s) ==
    LET d == IF Len(s) >= 1 /\ (s[1] = "-" \/ s[1] = "+") THEN 2 ELSE 1
    IN  /\ d <= Len(s)
        /\ \A k \in d..Len(s) : IsDigit(s[k])

\* C9, for the requests whose order is accepted and whose query can run: a
\* page or limit that is given and is not a well-formed integer is answered
\* with 400, and a response that is not a success holds an error message
\* only.
C9_MalformedNumberRejected ==
    (Handled /\ OrderAccepted /\ QueryCanRun) =>
        /\ ( (req.page.set /\ ~WellFormedInteger(req.page.val))
             \/ (req.limit.set /\ ~WellFormedInteger(req.limit.val)) ) =>
              res.status = 400
        /\ res.status # 200 => DOMAIN res.body = {"error"}

\* --------------------------------------------------------------- C10

\* s occurs in text as a run of consecutive characters, letter case ignored.
ContainsIgnoringCase(text, s) ==
    \E j \in 0..(Len(text) - Len(s)) :
        \A k \in 1..Len(s) : ToUpperChar(text[j + k]) = ToUpperChar(s[k])

\* The rows whose name or e-mail address contains the search string.
Containing ==
    { k \in 1..Len(store) :
        \/ ContainsIgnoringCase(store[k].name, ReqSearch)
        \/ ContainsIgnoringCase(store[k].email, ReqSearch) }

\* C10: the rows counted and returned by a successful response are the rows
\* whose name or e-mail address contains the search string, letter case
\* ignored, whatever characters the search string holds.
C10_SearchIsSubstring ==
    (Handled /\ Succeeded) =>
        /\ res.body.totalUsers = Cardinality(Containing)
        /\ \A k \in 1..Len(res.body.users) :
              res.body.users[k] \in { store[j] : j \in Containing }

\* --------------------------------------------------------------- C11

\* The request page=1&limit=10&search=User 1, the other parameters left out.
IsUserOneQuery ==
    /\ req.page = Given(<<"1">>)
    /\ req.limit = Given(<<"1","0">>)
    /\ req.search = Given(<<"U","s","e","r"," ","1">>)
    /\ ~req.orderBy.set
    /\ ~req.order.set

\* The names User 1, User 10 .. User 19 and User 100.
UserOneNames ==
    { SeedUser(i).name : i \in {1} \cup (10..19) \cup {100} }

\* C11: on the 100 seeded rows the request page=1&limit=10&search=User 1
\* selects exactly the rows named User 1, User 10 .. User 19 and User 100, and
\* its response is page 1 of 2 with 10 of those rows.
C11_UserOneFirstPage ==
    (Handled /\ dbPhase = "seeded" /\ IsUserOneQuery) =>
        /\ res.status = 200
        /\ { store[k].name : k \in Matching } = UserOneNames
        /\ res.body.totalUsers = Cardinality(Matching)
        /\ res.body.totalPages = 2
        /\ res.body.currentPage = 1
        /\ Len(res.body.users) = 10
        /\ \A k \in 1..10 : res.body.users[k].name \in UserOneNames
        /\ \A j, k \in 1..10 : j # k => res.body.users[j] # res.body.users[k]

\* The request answered from the table of 100 rows.
C11_Witness ==
    /\ Handled /\ Succeeded
    /\ Len(store) = SEED_COUNT
    /\ IsUserOneQuery
    /\ Len(res.body.users) = 10

\* --------------------------------------------------------------- C12

\* C12 as stated: on the 100 seeded rows a request with search=User 1 reports
\* totalUsers 11.
C12_ElevenMatches ==
    (Handled /\ Succeeded /\ dbPhase = "seeded"
       /\ req.search = Given(<<"U","s","e","r"," ","1">>)) =>
        res.body.totalUsers = 11

\* C12 amended: on the 100 seeded rows a request with search=User 1 reports
\* totalUsers 12, the number of the names User 1, User 10 .. User 19 and
\* User 100.
C12_TwelveMatches ==
    (Handled /\ Succeeded /\ dbPhase = "seeded"
       /\ req.search = Given(<<"U","s","e","r"," ","1">>)) =>
        /\ res.body.totalUsers = 12
        /\ res.body.totalUsers = Cardinality(UserOneNames)

\* search=User 1 answered from the table of 100 rows on a page other than the
\* first.
C12_Witness ==
    /\ Handled /\ Succeeded
    /\ Len(store) = SEED_COUNT
    /\ req.search = Given(<<"U","s","e","r"," ","1">>)
    /\ req.page = Given(<<"2">>)
    /\ res.body.totalUsers > 0

\* --------------------------------------------------------------- C13

\* C13: the step that handles a request, whatever the status of its response,
\* leaves the table as it was: the same rows in the same order, and the
\* table neither created nor dropped.
C13_RequestLeavesStore ==
    [][ (res' # res /\ res' # NoResponse) =>
            (store' = store /\ dbPhase' = dbPhase /\ seedI' = seedI) ]_vars

\* A request whose query failed, handled while the table has rows.
C13_Witness ==
    /\ Handled
    /\ res.status = 500
    /\ Len(store) >= 2

\* --------------------------------------------------------------- C14

SentOr(param, value) == IF param.set THEN param ELSE Given(value)

\* The request with page=1, limit=10, search="", orderBy=name and order=ASC
\* sent in the place of the parameters it leaves out.
AsIfSent(q) ==
    [ page |-> SentOr(q.page, <<"1">>),
      limit |-> SentOr(q.limit, <<"1","0">>),
      search |-> SentOr(q.search, <<>>),
      orderBy |-> SentOr(q.orderBy, <<"n","a","m","e">>),
      order |-> SentOr(q.order, <<"A","S","C">>) ]

\* The first 10 of the 100 seeded rows by name ascending: the names compare
\* character by character, so User 10 and User 100 come before User 11.
FirstTenByName ==
    [ k \in 1..10 |-> SeedUser(<<1, 10, 100, 11, 12, 13, 14, 15, 16, 17>>[k]) ]

\* C15: after seeding, a request that leaves parameters out gets the response
\* of the request that sends page=1, limit=10, search="", orderBy=name,
\* order=ASC in their place; the request with no parameter gets the first 10
\* of all rows by name ascending, as page 1 of 10.
C15_DefaultsApply ==
    (Handled /\ dbPhase = "seeded") =>
        /\ (earlier # NoneEarlier /\ earlier.req = AsIfSent(req)) =>
              res = earlier.res
        /\ req = NoQuery =>
              /\ res.status = 200
              /\ res.body.users = FirstTenByName
              /\ res.body.currentPage = 1
              /\ res.body.totalUsers = SEED_COUNT
              /\ res.body.totalPages = 10

\* The request with no parameter answered after the request that sends all
\* five values was answered.
C15_Witness ==
    /\ Handled /\ Succeeded
    /\ dbPhase = "seeded"
    /\ req = NoQuery
    /\ earlier # NoneEarlier
    /\ earlier.req = AsIfSent(NoQuery)
    /\ Len(res.body.users) = 10

\* --------------------------------------------------------------- C16

\* C16: a request that passes validation and whose query fails, because the
\* table does not exist yet or because orderBy names none of its columns, is
\* answered with 500 and a body that holds the generic message and nothing
\* else, after one findAndCountAll call.
C16_QueryFailureIs500 ==
    (Handled /\ ValidPageAndLimit /\ OrderAccepted /\ ~QueryCanRun) =>
        /\ res.status = 500
        /\ DOMAIN res.body = {"error"}
        /\ res.body.error = ErrFetch
        /\ calls = 1

\* orderBy=age refused with 500 although the search selects rows of the
\* table.
C16_Witness ==
    /\ Handled
    /\ res.status = 500
    /\ req.orderBy = Given(<<"a","g","e">>)
    /\ dbPhase # "start"
    /\ Cardinality(Matching) >= 2

\* --------------------------------------------------------------- C17

\* The step sends request q and no other: q joins the unanswered requests.
Sends(q) == inflight' = inflight (+) SetToBag({ q })

\* C17, for the steps taken on a page the server serves: a step of the view
\* that changes the search text or the limit leaves the page index at 0 and
\* sends a request that carries page=1.
C17_SearchOrLimitResetsPage ==
    [][ (pageIndex >= 0 /\ (search' # search \/ limit' # limit)) =>
            /\ pageIndex' = 0
            /\ \E q \in BagToSet(inflight') :
                  Sends(q) /\ q.page = Given(<<"1">>) ]_vars

\* --------------------------------------------------------------- C18

\* A step of the Previous button, the Next button or the page-number box.
PageControlStep ==
    \/ PreviousClick
    \/ NextClick
    \/ \E value \in PageBoxValues : PageInputChange(value)

\* C18: a step of the Previous button, the Next button or the page-number
\* box leaves the search text and the limit as they were.
C18_PageControlsKeepSearchAndLimit ==
    [][ PageControlStep => (search' = search /\ limit' = limit) ]_vars

\* A page other than the first shown for a search text and a limit that are
\* not the initial ones: the search edit went to the first page, so a page
\* control acted after it.
C18_Witness ==
    /\ search = <<"U","s","e","r"," ","1">>
    /\ limit = <<"5">>
    /\ pageIndex = 1

\* --------------------------------------------------------------- C19

\* C19: a step that changes the search text, the limit or the page index
\* sets loading and sends exactly one request, which carries the new page
\* (page index + 1), limit and search and no other parameter; a step in
\* which a request ends with its response stored takes one request out of
\* the unanswered ones, stores the users and totalPages of the server's
\* answer to it as data and pageCount, and clears loading.
C19_ChangeLoadsAndStores ==
    [][ /\ (<<search', limit', pageIndex'>> # <<search, limit, pageIndex>>) =>
              /\ loading'
              /\ Sends([ page |-> Given(ToStr(pageIndex' + 1)),
                         limit |-> Given(limit'),
                         search |-> Given(search'),
                         orderBy |-> Absent,
                         order |-> Absent ])
        /\ (BagCardinality(inflight') < BagCardinality(inflight)
              /\ lastFetch' = "ok") =>
              /\ ~loading'
              /\ \E q \in BagToSet(inflight) :
                    /\ inflight' = inflight (-) SetToBag({ q })
                    /\ LET answer == GetUsers(q, store, TRUE)
                       IN  /\ answer.status = 200
                           /\ data' = answer.body.users
                           /\ pageCount' = answer.body.totalPages ]_vars

\* The response to a request sent for a search edit is stored and nothing is
\* unanswered: the only row is the one whose name contains User 1.
C19_Witness ==
    /\ lastFetch = "ok"
    /\ ~loading
    /\ inflight = EmptyBag
    /\ search = <<"U","s","e","r"," ","1">>
    /\ data = << SeedUser(1) >>
    /\ pageCount = 1

\* --------------------------------------------------------------- C20

\* A step in which a request of the view ends in the catch block of
\* fetchData: a network error, or an answer that is not 2xx.
FetchFailedStep ==
    /\ BagCardinality(inflight') < BagCardinality(inflight)
    /\ lastFetch' = "error"

\* C20 as stated: when a request of the view fails nothing the user sees
\* changes and loading stays set.
C20_FailureKeepsLoading ==
    [][ FetchFailedStep =>
            /\ loading' = TRUE
            /\ data' = data
            /\ pageCount' = pageCount ]_vars

\* C20 amended: when a request of the view fails, the rows, the page count,
\* the search text, the limit and the page index are left as they were and
\* loading is cleared.
C20_FailureClearsLoading ==
    [][ FetchFailedStep =>
            /\ loading' = FALSE
            /\ data' = data
            /\ pageCount' = pageCount
            /\ <<search', limit', pageIndex'>> = <<search, limit, pageIndex>> ]_vars

\* A request failed after another had its response stored: the rows are
\* kept and loading is cleared.
C20_Witness ==
    /\ lastFetch = "error"
    /\ ~loading
    /\ inflight = EmptyBag
    /\ Len(data) >= 1

\* --------------------------------------------------------------- C21

\* The users and totalPages the server answers with to the request for the
\* view's present page index, limit and search.
PresentAnswer == GetUsers(UrlQuery(pageIndex, limit, search), store, TRUE)

\* C21: a step that changes the search text, the limit or the page index
\* cancels no request: every request unanswered before the step is
\* unanswered after it, as many times over, and one more request is
\* unanswered after it than before.
C21_ChangeCancelsNothing ==
    [][ (<<search', limit', pageIndex'>> # <<search, limit, pageIndex>>) =>
            /\ \A q \in BagToSet(inflight) :
                  CopiesIn(q, inflight') >= CopiesIn(q, inflight)
            /\ BagCardinality(inflight') = BagCardinality(inflight) + 1 ]_vars

\* Every request has ended, the last of them with its response stored, and
\* the rows kept are not those of the present search: the view shows the six
\* rows of the empty search under the search text User 1, whose request the
\* server answers with one row. The request for the empty search was sent
\* before the search text became User 1 and its response arrived last.
C21_Witness ==
    /\ inflight = EmptyBag
    /\ lastFetch = "ok"
    /\ search = <<"U","s","e","r"," ","1">>
    /\ pageIndex = 0
    /\ Len(data) = ViewSeeded
    /\ PresentAnswer.status = 200
    /\ data # PresentAnswer.body.users

\* --------------------------------------------------------------- C22

\* Page {tablePageIndex + 1} of {pageOptions.length}
PageShown == tablePageIndex + 1

\* page=${pageIndex + 1} of the request the view sent last.
PageRequested == pageIndex + 1

\* C22: the page index of the view and the page index of the table library
\* are two pieces of state: a search edit sets the first to 0 and leaves the
\* second, which is the page shown in "Page N of M", as it was.
C22_SearchEditMovesOneIndex ==
    [][ search' # search =>
            /\ PageRequested' = 1
            /\ PageShown' = PageShown ]_vars

\* After a search edit made on the second page: the view shows "Page 2" and
\* the request it sent last carries page=1.
C22_Witness ==
    /\ search = <<"U","s","e","r"," ","1">>
    /\ PageShown = 2
    /\ PageRequested = 1

\* --------------------------------------------------------------- C23

\* C23: the page index of the view is never negative, and every unanswered
\* request of the view carries a page of at least 1, which the server does
\* not refuse with 400.
C23_NoPageBelowOne ==
    /\ pageIndex >= 0
    /\ \A q \in BagToSet(inflight) :
          /\ ~IsNaN(ParseInt(q.page.val))
          /\ ParseInt(q.page.val).val >= 1
          /\ GetUsers(q, store, TRUE).status # 400

\* --------------------------------------------------------------- C24

\* C24: loading is set in every state in which a request of the view is
\* unanswered.
C24_LoadingWhileUnanswered == (inflight # EmptyBag) => loading

\* --------------------------------------------------------------- C25

\* C25: a step in which a request of the view fails leaves data and
\* pageCount as they were; data and pageCount change in no step but one in
\* which a request ends with its response stored; and they are the empty
\* list and 0 as long as no request has ended. So what is kept after a
\* failure is what the last stored response left, or the empty list and 0.
C25_FailureKeepsRows ==
    [][ /\ FetchFailedStep => <<data', pageCount'>> = <<data, pageCount>>
        /\ <<data', pageCount'>> # <<data, pageCount>> =>
              /\ lastFetch' = "ok"
              /\ BagCardinality(inflight') < BagCardinality(inflight)
        /\ lastFetch = "none" => (data = <<>> /\ pageCount = 0) ]_vars

\* The request for the search text User 1 failed: the six rows and the one
\* page of the response to the empty search are kept.
C25_Witness ==
    /\ lastFetch = "error"
    /\ inflight = EmptyBag
    /\ search = <<"U","s","e","r"," ","1">>
    /\ limit = <<"1","0">>
    /\ Len(data) = ViewSeeded
    /\ pageCount = 1

\* --------------------------------------------------------------- C26

\* The rows of pages 1..n of the handled request's result, each with its
\* page and its place on the page: page k is what the server answers with to
\* the handled request with page=k.
Paged(n) ==
    UNION { LET rows == GetUsers([req EXCEPT !.page = Given(ToStr(k))],
                                 store, TRUE).body.users
            IN  { <<k, i, rows[i]>> : i \in 1..Len(rows) } : k \in 1..n }

\* C26: for the limit, search, column and direction of a request the seeded
\* server answered with success, the rows on the pages 1..totalPages are the
\* matching rows, no row is at two places (of one page or of two), and the
\* pages hold totalUsers rows together.
C26_PagesPartitionMatches ==
    (Handled /\ Succeeded) =>
        LET paged == Paged(res.body.totalPages)
            onPages == { p[3] : p \in paged }
        IN  /\ onPages = MatchingRows
            /\ Cardinality(onPages) = Cardinality(paged)
            /\ Cardinality(paged) = res.body.totalUsers

\* A client has paged to the fourth and last page of the 100 seeded rows,
\* thirty a page: that page has ten rows.
C26_Witness ==
    /\ Handled
    /\ Succeeded
    /\ Len(store) = SEED_COUNT
    /\ res.body.totalUsers = SEED_COUNT
    /\ res.body.totalPages = 4
    /\ res.body.currentPage = 4
    /\ Len(res.body.users) = 10

\* --------------------------------------------------------------- C27

\* C27: every response with success to a request whose search is empty
\* reports as totalUsers the SEED_COUNT rows of the seeding loop.
C27_EmptySearchCountsAllSeeded ==
    (Handled /\ Succeeded /\ ReqSearch = <<>>) =>
        res.body.totalUsers = SEED_COUNT

\* --------------------------------------------------------------- C28

\* The delay of the timer that ends light a.
DelayOf(a) ==
    CASE a = "red" -> RedMs
      [] a = "yellow" -> YellowMs
      [] a = "green" -> GreenMs

\* C28: the light starts at red; the active light changes only from red to
\* yellow, from yellow to green and from green to red, and not before the
\* light it leaves has been shown for 4000, 500 and 3000 ms; and one light
\* of the three, no more and no less, is lit in every state.
C28_LightCycle ==
    /\ active = "red"
    /\ [][ active' # active =>
              /\ <<active, active'>> \in
                    { <<"red", "yellow">>, <<"yellow", "green">>,
                      <<"green", "red">> }
              /\ shownFor >= DelayOf(active) ]_vars
    /\ [](Cardinality({ x \in Lights : Lit(x) }) = 1)

\* The light has just gone from yellow to green: the component is rendered
\* with green lit and the effect of that render has yet to run.
C28_Witness ==
    /\ active = "green"
    /\ Lit("green")
    /\ lightPc = "effect"
    /\ shownFor = 0
    /\ timers = EmptyBag

\* --------------------------------------------------------------- C29

\* C29: with an effect that is to run running, time passing and a due timer
\* firing, each of red, yellow and green is the active light again and
\* again, for ever; and at most one timer is pending in every state.
C29_LightNeverStuck ==
    /\ []<>(active = "red")
    /\ []<>(active = "yellow")
    /\ []<>(active = "green")
    /\ [](BagCardinality(timers) <= 1)

\* Green has been shown for its 3000 ms and the one pending timer, which
\* sets red, is due.
C29_Witness ==
    /\ active = "green"
    /\ shownFor >= GreenMs
    /\ BagCardinality(timers) = 1
    /\ \E t \in BagToSet(timers) : t.to = "red" /\ t.due <= 0

\* --------------------------------------------------------------- C30

\* The step is the navigation of Add to Cart.
AddToCartStep ==
    /\ route.page = "product"
    /\ route' = CheckoutRoute
    /\ lastNav' = "addToCart"

\* C30: the navigation of Add to Cart is made only from a product page on
\* which a size is selected, and as long as a product page stays open a
\* size that is selected stays selected, so that Add to Cart stays enabled.
C30_AddToCartNeedsSize ==
    [][ /\ AddToCartStep => size \in Sizes
        /\ (route.page = "product" /\ size # "" /\ route' = route) =>
              (size' \in Sizes /\ ~AddToCartDisabled') ]_vars

\* The checkout page, reached by Add to Cart.
C30_Witness ==
    /\ route = CheckoutRoute
    /\ lastNav = "addToCart"

====
